---------------------------- MODULE Spec2Model ----------------------------
(***************************************************************************)
(* The MCP client session (src/app.py, src/llm_client_terminal.py) and the *)
(* worker channel it talks to (src/mcp_server_fallback.py), as a state     *)
(* machine.                                                                *)
(*                                                                         *)
(* Text is a sequence of one-character strings, so that Python's substring *)
(* test (kw in query), lower() and split() are computed, not assumed.      *)
(***************************************************************************)
EXTENDS Integers, Sequences, FiniteSets, TLC

(***************************************************************************)
(* Bounds of the model.                                                    *)
(***************************************************************************)
NCallers == 2   \* concurrent chat callers (Flask request threads / loop turns)
MaxNoise == 1   \* unsolicited lines the worker writes to its stdout
MaxClose == 2   \* calls of close()
MaxWords == 3   \* words in a text given to the query compiler
MaxCalls == 2   \* tool calls the worker answers
MaxRows == 15   \* rows the store returns for a statement
MaxRuns == 2    \* run_async calls of one request thread

(***************************************************************************)
(* Text helpers: str.lower(), `sub in s`, str.split().                     *)
(***************************************************************************)
UpperAlpha ==
    <<"A","B","C","D","E","F","G","H","I","J","K","L","M",
      "N","O","P","Q","R","S","T","U","V","W","X","Y","Z">>

LowerAlpha ==
    <<"a","b","c","d","e","f","g","h","i","j","k","l","m",
      "n","o","p","q","r","s","t","u","v","w","x","y","z">>

LowerChar(ch) ==
    IF \E i \in 1..26 : UpperAlpha[i] = ch
    THEN LowerAlpha[CHOOSE i \in 1..26 : UpperAlpha[i] = ch]
    ELSE ch

Lower(s) == [i \in 1..Len(s) |-> LowerChar(s[i])]

Contains(s, sub) ==
    \E i \in 0..(Len(s) - Len(sub)) :
        \A j \in 1..Len(sub) : s[i + j] = sub[j]

RECURSIVE SplitFrom(_, _, _)
SplitFrom(s, i, cur) ==
    IF i > Len(s)
    THEN IF cur = << >> THEN << >> ELSE << cur >>
    ELSE IF s[i] = " "
         THEN IF cur = << >>
              THEN SplitFrom(s, i + 1, << >>)
              ELSE << cur >> \o SplitFrom(s, i + 1, << >>)
         ELSE SplitFrom(s, i + 1, Append(cur, s[i]))

Split(s) == SplitFrom(s, 1, << >>)

(***************************************************************************)
(* The user queries the model draws from.                                  *)
(***************************************************************************)
QRock == <<"R","o","c","k"," ","a","r","t","i","s","t","s">>
QHi == <<"h","i">>
QWeather == <<"i","s"," ","i","t"," ","h","o","t">>

Queries == { QRock, QHi, QWeather }

NoQuery == << >>

(***************************************************************************)
(* The relevance scorer, should_use_database.                              *)
(***************************************************************************)
music_keywords ==
    { <<"a","r","t","i","s","t">>,
      <<"s","i","n","g","e","r">>,
      <<"b","a","n","d">>,
      <<"m","u","s","i","c","i","a","n">>,
      <<"a","l","b","u","m">>,
      <<"s","o","n","g">>,
      <<"t","r","a","c","k">>,
      <<"m","u","s","i","c">>,
      <<"g","e","n","r","e">>,
      <<"r","o","c","k">>,
      <<"j","a","z","z">>,
      <<"p","o","p">>,
      <<"m","e","t","a","l">>,
      <<"c","l","a","s","s","i","c","a","l">>,
      <<"m","e","t","a","l","l","i","c","a">>,
      <<"b","e","a","t","l","e","s">>,
      <<"q","u","e","e","n">>,
      <<"l","e","d"," ","z","e","p","p","e","l","i","n">>,
      <<"p","l","a","y","l","i","s","t">> }

simple_keywords ==
    { <<"a","r","t","i","s","t">>,
      <<"s","i","n","g","e","r">>,
      <<"b","a","n","d">>,
      <<"a","l","b","u","m">>,
      <<"s","o","n","g">>,
      <<"m","u","s","i","c">>,
      <<"r","o","c","k">>,
      <<"j","a","z","z">>,
      <<"p","o","p">> }

\* llm_client_terminal.py: any(keyword in query_lower for keyword in music_keywords)
should_use_database_terminal(q) ==
    \E kw \in music_keywords : Contains(Lower(q), kw)

\* app.py, fuzzywuzzy missing: any(kw in user_query.lower() for kw in simple_keywords)
should_use_database_simple(q) ==
    \E kw \in simple_keywords : Contains(Lower(q), kw)

\* app.py, fuzzywuzzy present: words shorter than 3 never score; the score of a
\* longer word is the library's (not part of the repository), so either answer
\* is possible as soon as one word of length >= 3 exists.
should_use_database_fuzzy(q) ==
    IF \E i \in 1..Len(Split(Lower(q))) : Len(Split(Lower(q))[i]) >= 3
    THEN BOOLEAN
    ELSE { FALSE }

\* The set of answers should_use_database can give for query q: the terminal
\* client's keyword test; the web client's fuzzy score, or its keyword test when
\* the import inside the function fails.
should_use_database(cl, q) ==
    IF cl = "terminal" THEN { should_use_database_terminal(q) }
    ELSE should_use_database_fuzzy(q) \cup { should_use_database_simple(q) }

\* should_use_database over the queries of the model.
ScorerAnswers ==
    [cl \in {"web", "terminal"}, q \in Queries |-> should_use_database(cl, q)]

(***************************************************************************)
(* The worker's query compiler: generate_sql_from_keywords.                *)
(***************************************************************************)

\* The keyword lists and mappings, in their declaration order.
artist_keywords ==
    << <<"a","r","t","i","s","t">>, <<"s","i","n","g","e","r">>, <<"b","a","n","d">>,
       <<"m","u","s","i","c","i","a","n">>, <<"p","e","r","f","o","r","m","e","r">>, <<"v","o","c","a","l","i","s","t">>,
       <<"c","o","m","p","o","s","e","r">>, <<"g","r","o","u","p">>, <<"d","u","o">>,
       <<"t","r","i","o">> >>

\* genre_keywords_extended.items(): << keyword, genre >> in insertion order.
genre_keywords_extended ==
    << << <<"r","o","c","k">>, <<"R","o","c","k">> >>,
       << <<"m","e","t","a","l">>, <<"M","e","t","a","l">> >>,
       << <<"j","a","z","z">>, <<"J","a","z","z">> >>,
       << <<"p","o","p">>, <<"P","o","p">> >>,
       << <<"b","l","u","e","s">>, <<"B","l","u","e","s">> >>,
       << <<"c","l","a","s","s","i","c","a","l">>, <<"C","l","a","s","s","i","c","a","l">> >>,
       << <<"c","o","u","n","t","r","y">>, <<"C","o","u","n","t","r","y">> >>,
       << <<"f","o","l","k">>, <<"F","o","l","k">> >>,
       << <<"p","u","n","k">>, <<"P","u","n","k">> >>,
       << <<"r","e","g","g","a","e">>, <<"R","e","g","g","a","e">> >>,
       << <<"e","l","e","c","t","r","o","n","i","c">>, <<"E","l","e","c","t","r","o","n","i","c">> >>,
       << <<"d","a","n","c","e">>, <<"D","a","n","c","e">> >>,
       << <<"a","l","t","e","r","n","a","t","i","v","e">>, <<"A","l","t","e","r","n","a","t","i","v","e">> >>,
       << <<"i","n","d","i","e">>, <<"A","l","t","e","r","n","a","t","i","v","e">> >>,
       << <<"g","r","u","n","g","e">>, <<"R","o","c","k">> >>,
       << <<"f","u","n","k">>, <<"F","u","n","k">> >>,
       << <<"s","o","u","l">>, <<"S","o","u","l">> >>,
       << <<"g","o","s","p","e","l">>, <<"G","o","s","p","e","l">> >>,
       << <<"o","p","e","r","a">>, <<"C","l","a","s","s","i","c","a","l">> >> >>

stop_words ==
    << <<"t","h","e">>, <<"a","n","d">>, <<"w","h","o">>,
       <<"s","i","n","g">>, <<"a","r","t","i","s","t">>, <<"s","i","n","g","e","r">>,
       <<"b","a","n","d">>, <<"m","u","s","i","c","i","a","n">>, <<"p","e","r","f","o","r","m","e","r">>,
       <<"b","y">>, <<"f","r","o","m">>, <<"w","i","t","h">> >>

album_keywords ==
    << <<"a","l","b","u","m">>, <<"r","e","c","o","r","d">>, <<"d","i","s","c">>,
       <<"c","d">>, <<"v","i","n","y","l">>, <<"l","p">>,
       <<"e","p">>, <<"r","e","l","e","a","s","e">> >>

album_stop_words ==
    << <<"t","h","e">>, <<"a","n","d">>, <<"a","l","b","u","m">>,
       <<"r","e","c","o","r","d">>, <<"d","i","s","c">>, <<"c","d">>,
       <<"v","i","n","y","l">>, <<"l","p">>, <<"e","p">>,
       <<"r","e","l","e","a","s","e">>, <<"b","y">>, <<"f","r","o","m">> >>

track_keywords ==
    << <<"t","r","a","c","k">>, <<"s","o","n","g">>, <<"m","u","s","i","c">>,
       <<"t","u","n","e">>, <<"m","e","l","o","d","y">>, <<"h","i","t">>,
       <<"s","i","n","g","l","e">> >>

duration_keywords ==
    << <<"l","o","n","g">>, <<"d","u","r","a","t","i","o","n">>, <<"m","i","n","u","t","e">> >>

track_stop_words ==
    << <<"t","h","e">>, <<"a","n","d">>, <<"t","r","a","c","k">>,
       <<"s","o","n","g">>, <<"m","u","s","i","c">>, <<"t","u","n","e">>,
       <<"m","e","l","o","d","y">>, <<"h","i","t">>, <<"s","i","n","g","l","e">>,
       <<"b","y">>, <<"f","r","o","m">> >>

style_keywords ==
    << <<"g","e","n","r","e">>, <<"s","t","y","l","e">>, <<"t","y","p","e">> >>

\* The words that open the country branch (the elif's list).
country_branch_keywords ==
    << <<"c","o","u","n","t","r","y">>, <<"i","n","d","i","a","n">>, <<"a","m","e","r","i","c","a","n">>,
       <<"b","r","i","t","i","s","h">>, <<"b","r","a","z","i","l","i","a","n">>, <<"c","a","n","a","d","i","a","n">>,
       <<"a","u","s","t","r","a","l","i","a","n">>, <<"g","e","r","m","a","n">>, <<"f","r","e","n","c","h">>,
       <<"i","t","a","l","i","a","n">> >>

\* country_keywords.items(): << keyword, country >> in insertion order.
country_keywords ==
    << << <<"i","n","d","i","a","n">>, <<"I","n","d","i","a">> >>,
       << <<"a","m","e","r","i","c","a","n">>, <<"U","S","A">> >>,
       << <<"b","r","i","t","i","s","h">>, <<"U","n","i","t","e","d"," ","K","i","n","g","d","o","m">> >>,
       << <<"b","r","a","z","i","l","i","a","n">>, <<"B","r","a","z","i","l">> >>,
       << <<"c","a","n","a","d","i","a","n">>, <<"C","a","n","a","d","a">> >>,
       << <<"a","u","s","t","r","a","l","i","a","n">>, <<"A","u","s","t","r","a","l","i","a">> >>,
       << <<"g","e","r","m","a","n">>, <<"G","e","r","m","a","n","y">> >>,
       << <<"f","r","e","n","c","h">>, <<"F","r","a","n","c","e">> >>,
       << <<"i","t","a","l","i","a","n">>, <<"I","t","a","l","y">> >>,
       << <<"s","p","a","n","i","s","h">>, <<"S","p","a","i","n">> >>,
       << <<"j","a","p","a","n","e","s","e">>, <<"J","a","p","a","n">> >>,
       << <<"k","o","r","e","a","n">>, <<"S","o","u","t","h"," ","K","o","r","e","a">> >> >>

\* The words the input texts are made of.
Vocabulary ==
    << <<"a","r","t","i","s","t","s">>, <<"r","o","c","k">>, <<"p","o","p">>,
       <<"g","r","u","n","g","e">>, <<"Q","u","e","e","n">>, <<"t","h","e">>,
       <<"a">>, <<"'","a","'">>, <<"c","d">>,
       <<"a","l","b","u","m">>, <<"s","o","n","g">>, <<"l","o","n","g">>,
       <<"g","e","n","r","e">>, <<"i","t","a","l","i","a","n">>, <<"k","o","r","e","a","n">>,
       <<"d","u","o">> >>

\* The country adjectives of Vocabulary's texts come from country_keywords too.
Adjectives == { country_keywords[i][1] : i \in DOMAIN country_keywords }

\* ' '.join(ws)
RECURSIVE Join(_)
Join(ws) ==
    IF ws = << >> THEN << >>
    ELSE IF Len(ws) = 1 THEN ws[1]
    ELSE ws[1] \o <<" ">> \o Join(Tail(ws))

\* The input texts: up to MaxWords words of Vocabulary, and every country
\* adjective alone, before and after a word of Vocabulary.
WordTexts ==
    { Join(ws) : ws \in UNION { [1..k -> { Vocabulary[i] : i \in DOMAIN Vocabulary }] :
                                  k \in 0..MaxWords } }

AdjectiveTexts ==
    { a : a \in Adjectives }
        \cup { Join(<< a, Vocabulary[i] >>) : a \in Adjectives, i \in DOMAIN Vocabulary }
        \cup { Join(<< Vocabulary[i], a >>) : a \in Adjectives, i \in DOMAIN Vocabulary }

Texts == WordTexts \cup AdjectiveTexts

\* s.replace(ch, '')
Remove(s, ch) == SelectSeq(s, LAMBDA c : c # ch)

\* user_query.lower().replace("'", "").replace('"', '')
CleanQuery(user_query) == Remove(Remove(Lower(user_query), "'"), "\"")

\* any(word in query_lower for word in keywords)
AnyKeyword(query_lower, keywords) ==
    \E i \in DOMAIN keywords : Contains(query_lower, keywords[i])

\* any(word in query_lower for word in mapping.keys())
AnyKey(query_lower, mapping) ==
    \E i \in DOMAIN mapping : Contains(query_lower, mapping[i][1])

\* A variant of FirstValue that takes the last matching item; C13 fails with
\* it.
LastValue(query_lower, mapping) ==
    mapping[CHOOSE i \in DOMAIN mapping :
               /\ Contains(query_lower, mapping[i][1])
               /\ \A j \in (i + 1)..Len(mapping) : ~Contains(query_lower, mapping[j][1])][2]

\* for keyword, value in mapping.items(): if keyword in query_lower: the
\* value of the first such item.
FirstValue(query_lower, mapping) ==
    mapping[CHOOSE i \in DOMAIN mapping :
               /\ Contains(query_lower, mapping[i][1])
               /\ \A j \in 1..(i - 1) : ~Contains(query_lower, mapping[j][1])][2]

\* A variant of SearchWords that keeps the short words; C12 fails with it.
SearchWordsOfAnyLength(query_lower, stop) ==
    SelectSeq(Split(query_lower), LAMBDA w : ~(\E i \in DOMAIN stop : stop[i] = w))

\* [word for word in query_lower.split() if len(word) > 2 and word not in stop]
SearchWords(query_lower, stop) ==
    SelectSeq(Split(query_lower),
              LAMBDA w : Len(w) > 2 /\ ~(\E i \in DOMAIN stop : stop[i] = w))

\* words[0].replace("'", "").replace('"', '')
SearchTerm(words) == Remove(Remove(words[1], "'"), "\"")

\* The statements.  A statement is a sequence: the f-string's literal parts
\* are one element each (named by what they select), the interpolated value
\* is spliced in character by character.
ArtistsByGenreSql(genre) ==
    << "SELECT artists JOIN albums JOIN tracks JOIN genres WHERE g.Name LIKE '%" >>
        \o genre \o << "%' GROUP BY a.ArtistId ORDER BY TrackCount DESC LIMIT 20" >>

ArtistByNameSql(search_term) ==
    << "SELECT artists LEFT JOIN albums LEFT JOIN tracks WHERE a.Name LIKE '%" >>
        \o search_term \o << "%' GROUP BY a.ArtistId ORDER BY Albums DESC LIMIT 20" >>

AlbumSql(search_term) ==
    << "SELECT albums JOIN artists LEFT JOIN tracks WHERE al.Title LIKE '%" >>
        \o search_term \o << "%' OR a.Name LIKE '%" >>
        \o search_term \o << "%' GROUP BY al.AlbumId ORDER BY Tracks DESC LIMIT 20" >>

LongTracksSql ==
    << "SELECT tracks JOIN albums JOIN artists WHERE t.Milliseconds > 300000 ORDER BY t.Milliseconds DESC LIMIT 20" >>

TrackSql(search_term) ==
    << "SELECT tracks JOIN albums JOIN artists LEFT JOIN genres WHERE t.Name LIKE '%" >>
        \o search_term \o << "%' ORDER BY t.Name LIMIT 20" >>

GenreListSql ==
    << "SELECT genres LEFT JOIN tracks GROUP BY g.GenreId ORDER BY TrackCount DESC LIMIT 20" >>

CountrySql(country) ==
    << "SELECT COUNT(*) FROM customers WHERE c.Country LIKE '%" >>
        \o country \o << "%' GROUP BY c.Country LIMIT 20" >>

DefaultSql(search_term) ==
    << "SELECT artists LEFT JOIN albums WHERE a.Name LIKE '%" >>
        \o search_term \o << "%' GROUP BY a.ArtistId ORDER BY Albums DESC LIMIT 20" >>

FallbackSql ==
    << "SELECT artists LEFT JOIN albums LEFT JOIN tracks GROUP BY a.ArtistId ORDER BY Albums DESC, Tracks DESC LIMIT 20" >>

\* The tail of generate_sql_from_keywords, reached when no branch returned:
\* "Default: search all artists", then "Fallback: show popular artists".
DefaultOrFallback(query_lower) ==
    IF SearchWords(query_lower, << >>) # << >>
    THEN DefaultSql(SearchTerm(SearchWords(query_lower, << >>)))
    ELSE FallbackSql

\* generate_sql_from_keywords(user_query): the if/elif chain, then the tail.
generate_sql_from_keywords(user_query) ==
    LET query_lower == CleanQuery(user_query) IN
    IF AnyKeyword(query_lower, artist_keywords)
    THEN IF AnyKey(query_lower, genre_keywords_extended)
         THEN ArtistsByGenreSql(FirstValue(query_lower, genre_keywords_extended))
         ELSE IF SearchWords(query_lower, stop_words) # << >>
              THEN ArtistByNameSql(SearchTerm(SearchWords(query_lower, stop_words)))
              ELSE DefaultOrFallback(query_lower)
    ELSE IF AnyKeyword(query_lower, album_keywords)
    THEN IF SearchWords(query_lower, album_stop_words) # << >>
         THEN AlbumSql(SearchTerm(SearchWords(query_lower, album_stop_words)))
         ELSE DefaultOrFallback(query_lower)
    ELSE IF AnyKeyword(query_lower, track_keywords)
    THEN IF AnyKeyword(query_lower, duration_keywords)
         THEN LongTracksSql
         ELSE IF SearchWords(query_lower, track_stop_words) # << >>
              THEN TrackSql(SearchTerm(SearchWords(query_lower, track_stop_words)))
              ELSE DefaultOrFallback(query_lower)
    ELSE IF AnyKeyword(query_lower, style_keywords)
    THEN GenreListSql
    ELSE IF AnyKeyword(query_lower, country_branch_keywords)
    THEN IF AnyKey(query_lower, country_keywords)
         THEN CountrySql(FirstValue(query_lower, country_keywords))
         ELSE DefaultOrFallback(query_lower)
    ELSE DefaultOrFallback(query_lower)

(***************************************************************************)
(* State.                                                                  *)
(***************************************************************************)
VARIABLES
    client,       \* "web" (app.py) or "terminal" (llm_client_terminal.py)
    mcp_process,  \* self.mcp_process: "None" or "proc"
    worker,       \* the subprocess: "none", "running", "exited", "reaped"
    stdin,        \* messages written to the worker's stdin and not yet read by it
    sent,         \* the header of every message written to the worker, in order
    stdout,       \* lines written by the worker and not yet read by the client
    noise,        \* unsolicited lines the worker has written
    waiter,       \* the task suspended inside stdout.readline(), or NoTask
    running,      \* the coroutine that holds the event loop thread, or NoTask
    pc,           \* per task: where it is
    useDb,        \* per caller: what should_use_database returned
    received,     \* per task: the message receive_mcp_message returned
    lastLine,     \* per task: kind of the line its last readline() returned
    exc,          \* per task: the exception being raised inside it, or "none"
    result,       \* per caller: what chat returned
    closes,       \* how many times close() was called
    closeExc,     \* the exception close() raised, or "none"
    wpc,          \* the worker's call_tool: where it is
    arguments,    \* call_tool's name and arguments
    sql_query,    \* what generate_sql_from_keywords returned
    results,      \* what execute_sql_query returned
    response,     \* the text call_tool returned
    connections,  \* store connections opened and not closed
    calls,        \* tool calls the worker has answered
    llm_loop,     \* llm.loop: NoLoop (None) or the event loop it refers to
    loops,        \* event loops created by run_async
    loop_threads, \* per thread started by run_async: the loop whose run_forever it runs
    rpc,          \* per thread: where it is in run_async
    submitted,    \* per thread: the loop its last coroutine was submitted to
    runs          \* per thread: the run_async calls it has returned from

\* The client session and its channel.
svars ==
    << client, mcp_process, worker, stdin, sent, stdout, noise, waiter, running,
       pc, useDb, received, lastLine, exc, result, closes, closeExc >>

\* The inside of the worker's call_tool.
wvars == << wpc, arguments, sql_query, results, response, connections, calls >>

\* The event loop run_async keeps.
lvars == << llm_loop, loops, loop_threads, rpc, submitted, runs >>

vars == << svars, wvars, lvars >>

Main == 0                   \* the task running start_mcp_server
Callers == 1..NCallers      \* the tasks running chat
Tasks == {Main} \cup Callers
NoTask == -1

NoId == 0                   \* a message without an "id" member

NoLoop == 0                 \* llm.loop is None; loops are numbered from 1

\* Messages the client writes.
init_message == [method |-> "initialize", id |-> 1, by |-> Main, q |-> NoQuery]

initialized_message ==
    [method |-> "notifications/initialized", id |-> NoId, by |-> Main, q |-> NoQuery]

\* search_database's message: "id": 2 for every call.
call_message(c, q) == [method |-> "tools/call", id |-> 2, by |-> c, q |-> q]

\* What sent keeps of a message: its method, its id and who wrote it.
Header(msg) == [method |-> msg.method, id |-> msg.id, by |-> msg.by]

\* Lines the worker writes.  `re` is the position in sent of the request a
\* response answers (0 for a line that answers nothing).
NoMsg == [kind |-> "none", id |-> NoId, ok |-> FALSE, content |-> FALSE, re |-> 0]

TextLine == [kind |-> "text", id |-> NoId, ok |-> FALSE, content |-> FALSE, re |-> 0]

BracketLine ==
    [kind |-> "bracket", id |-> NoId, ok |-> FALSE, content |-> FALSE, re |-> 0]

NotificationLine ==
    [kind |-> "notification", id |-> NoId, ok |-> FALSE, content |-> FALSE, re |-> 0]

\* The response to the request sent[i]: it echoes the request's id; a
\* tools/call that succeeds carries result.content.
ResponseLine(i, ok) ==
    [kind |-> "response", id |-> sent[i].id, ok |-> ok,
     content |-> (ok /\ sent[i].method = "tools/call"), re |-> i]

SessionInit ==
    /\ client \in {"web", "terminal"}
    /\ mcp_process = "None"
    /\ worker = "none"
    /\ stdin = << >>
    /\ sent = << >>
    /\ stdout = << >>
    /\ noise = 0
    /\ waiter = NoTask
    /\ running = NoTask
    /\ pc = [t \in Tasks |-> "idle"]
    /\ useDb = [c \in Callers |-> FALSE]
    /\ received = [t \in Tasks |-> NoMsg]
    /\ lastLine = [t \in Tasks |-> "none"]
    /\ exc = [t \in Tasks |-> "none"]
    /\ result = [c \in Callers |-> "none"]
    /\ closes = 0
    /\ closeExc = "none"

\* call_tool's arguments before any call, and its locals before they are bound.
NoArguments == [name |-> "none", has |-> FALSE, query |-> << >>]

NoSql == << >>

NoResults == [kind |-> "none", rows |-> << >>]

NoResponse == [kind |-> "none", n |-> 0, query |-> << >>, lines |-> << >>, message |-> "none"]

WorkerInit ==
    /\ wpc = "idle"
    /\ arguments = NoArguments
    /\ sql_query = NoSql
    /\ results = NoResults
    /\ response = NoResponse
    /\ connections = 0
    /\ calls = 0

\* self.loop = None
LoopInit ==
    /\ llm_loop = NoLoop
    /\ loops = 0
    /\ loop_threads = << >>
    /\ rpc = [t \in Tasks |-> "idle"]
    /\ submitted = [t \in Tasks |-> NoLoop]
    /\ runs = [t \in Tasks |-> 0]

Init == SessionInit /\ WorkerInit /\ LoopInit

(***************************************************************************)
(* The transport: send_mcp_message and receive_mcp_message.                *)
(***************************************************************************)

\* A variant of SendRaises without the None case; C3 fails with it.
SendRaisesUnguarded ==
    IF worker = "reaped" THEN "ConnectionResetError" ELSE "none"

\* What send_mcp_message raises: self.mcp_process.stdin on None is an
\* AttributeError; stdin.write/drain on a pipe whose process is gone is a
\* ConnectionResetError.  While the loop has not yet noticed the exit the
\* write succeeds and the message is never read.
SendRaises ==
    IF mcp_process = "None" THEN "AttributeError"
    ELSE IF worker = "reaped" THEN "ConnectionResetError"
    ELSE "none"

\* send_mcp_message(msg): the line is written unless the send raises; it
\* reaches the worker's stdin when the worker is still there to read it.
send_mcp_message(msg) ==
    IF SendRaises = "none"
    THEN /\ stdin' = IF worker = "running" THEN Append(stdin, msg) ELSE stdin
         /\ sent' = Append(sent, Header(msg))
    ELSE UNCHANGED << stdin, sent >>

\* One turn of receive_mcp_message on a line that readline() returned:
\* "skip" (read the next line), "return" (json.loads gave a message) or
\* "raise" (JSONDecodeError leaves the function).
\*   app.py: a line that does not start with [ or { is skipped, one that does
\*   and is no JSON is skipped, the rest is returned.
\*   llm_client_terminal.py: json.loads of whatever the line is.
receive_step(cl, kind) ==
    IF cl = "web"
    THEN IF kind \in {"text", "bracket", "eof"} THEN "skip" ELSE "return"
    ELSE IF kind \in {"text", "bracket", "eof"} THEN "raise" ELSE "return"

\* The end of the worker's output: the process is gone and nothing is buffered.
AtEof == stdout = << >> /\ worker \in {"exited", "reaped"}

\* Task Main (start_mcp_server) after readline() returned a line of this
\* kind: on a message, whatever it is, the initialized notification is sent
\* and the server is ready.
MainDeliver(kind, msg) ==
    LET step == receive_step(client, kind) IN
    /\ lastLine' = [lastLine EXCEPT ![Main] = kind]
    /\ received' = [received EXCEPT ![Main] =
                       IF step = "return" THEN msg ELSE received[Main]]
    /\ IF step = "return"
       THEN send_mcp_message(initialized_message)
       ELSE UNCHANGED << stdin, sent >>
    /\ exc' = [exc EXCEPT ![Main] =
                  IF step = "raise" THEN "JSONDecodeError"
                  ELSE IF step = "return" THEN SendRaises
                  ELSE exc[Main]]
    /\ pc' = [pc EXCEPT ![Main] =
                 IF step = "skip" THEN "recv"
                 ELSE IF step = "return" /\ SendRaises = "none" THEN "ready"
                 ELSE "failed"]
    /\ running' = IF step = "skip" THEN Main ELSE NoTask

\* A caller (chat, inside search_database) after readline() returned a line
\* of this kind: on a message search_database returns to chat; a
\* JSONDecodeError is raised into chat's try block.
CallerDeliver(c, kind, msg) ==
    LET step == receive_step(client, kind) IN
    /\ lastLine' = [lastLine EXCEPT ![c] = kind]
    /\ received' = [received EXCEPT ![c] =
                       IF step = "return" THEN msg ELSE received[c]]
    /\ exc' = [exc EXCEPT ![c] =
                  IF step = "raise" THEN "JSONDecodeError" ELSE exc[c]]
    /\ pc' = [pc EXCEPT ![c] =
                 IF step = "skip" THEN "recv"
                 ELSE IF step = "return" THEN "format"
                 ELSE "except"]
    /\ UNCHANGED << stdin, sent, running >>

Deliver(t, kind, msg) ==
    IF t = Main THEN MainDeliver(kind, msg) ELSE CallerDeliver(t, kind, msg)

\* readline() finds a buffered line.
ReadLine(t) ==
    /\ pc[t] = "recv" /\ running = t
    /\ stdout # << >>
    /\ stdout' = Tail(stdout)
    /\ Deliver(t, Head(stdout).kind, Head(stdout))
    /\ UNCHANGED << client, mcp_process, worker, noise, waiter, useDb,
                    result, closes, closeExc >>
    /\ UNCHANGED << wvars, lvars >>

\* readline() at end-of-file returns b''.
ReadEof(t) ==
    /\ pc[t] = "recv" /\ running = t
    /\ AtEof
    /\ Deliver(t, "eof", NoMsg)
    /\ UNCHANGED << client, mcp_process, worker, stdout, noise, waiter, useDb, result, closes, closeExc >>
    /\ UNCHANGED << wvars, lvars >>

\* readline() with nothing buffered suspends the coroutine: the loop is free
\* for the other coroutines.
ReadBlock(t) ==
    /\ pc[t] = "recv" /\ running = t
    /\ stdout = << >> /\ worker = "running"
    /\ waiter = NoTask
    /\ waiter' = t
    /\ pc' = [pc EXCEPT ![t] = "recv_wait"]
    /\ running' = NoTask
    /\ UNCHANGED << client, mcp_process, worker, stdin, sent, stdout, noise,
                    useDb, received, lastLine, exc, result, closes,
                    closeExc >>
    /\ UNCHANGED << wvars, lvars >>

\* readline() while another coroutine is suspended in it: StreamReader raises
\* RuntimeError("readuntil() called while another coroutine is already
\* waiting for incoming data"), into chat's try block.
ReadConflict(c) ==
    /\ c \in Callers
    /\ pc[c] = "recv" /\ running = c
    /\ stdout = << >> /\ worker = "running"
    /\ waiter # NoTask
    /\ exc' = [exc EXCEPT ![c] = "RuntimeError"]
    /\ pc' = [pc EXCEPT ![c] = "except"]
    /\ UNCHANGED << client, mcp_process, worker, stdin, sent, stdout, noise,
                    waiter, running, useDb, received, lastLine, result,
                    closes, closeExc >>
    /\ UNCHANGED << wvars, lvars >>

\* The loop resumes a coroutine whose readline() was woken.
Resume(t) ==
    /\ pc[t] = "recv_ready" /\ running = NoTask
    /\ running' = t
    /\ pc' = [pc EXCEPT ![t] = "recv"]
    /\ UNCHANGED << client, mcp_process, worker, stdin, sent, stdout, noise,
                    waiter, useDb, received, lastLine, exc, result,
                    closes, closeExc >>
    /\ UNCHANGED << wvars, lvars >>

(***************************************************************************)
(* The session: start_mcp_server and close.                                *)
(***************************************************************************)

\* Callers that are not inside chat.
Quiet(c) == pc[c] \in {"idle", "done", "propagated"}

\* start_mcp_server up to its receive: the subprocess is created,
\* self.mcp_process set and init_message sent.  It runs before any chat
\* (app.py __main__, main()).
StartServer ==
    /\ pc[Main] = "idle" /\ running = NoTask /\ closes = 0
    /\ \A c \in Callers : pc[c] = "idle"
    /\ mcp_process' = "proc"
    /\ worker' = "running"
    /\ stdin' = Append(stdin, init_message)
    /\ sent' = Append(sent, Header(init_message))
    /\ pc' = [pc EXCEPT ![Main] = "recv"]
    /\ running' = Main
    /\ UNCHANGED << client, stdout, noise, waiter, useDb, received,
                    lastLine, exc, result, closes, closeExc >>
    /\ UNCHANGED << wvars, lvars >>

\* What close() raises: nothing when self.mcp_process is None (the body is
\* skipped); Process.terminate() raises ProcessLookupError once the loop has
\* collected the exited process.
CloseRaises ==
    IF mcp_process # "None" /\ worker = "reaped" THEN "ProcessLookupError"
    ELSE "none"

\* llm_client_terminal.py close(): if self.mcp_process: terminate(); wait().
Close ==
    /\ client = "terminal"
    /\ running = NoTask /\ closes < MaxClose
    /\ pc[Main] \in {"idle", "ready", "failed"}
    /\ \A c \in Callers : Quiet(c)
    /\ closes' = closes + 1
    /\ closeExc' = IF CloseRaises = "none" THEN closeExc ELSE CloseRaises
    /\ worker' = IF mcp_process # "None" /\ CloseRaises = "none"
                 THEN "reaped" ELSE worker
    /\ stdin' = IF mcp_process # "None" THEN << >> ELSE stdin
    /\ UNCHANGED << client, mcp_process, sent, stdout, noise, waiter,
                    running, pc, useDb, received, lastLine, exc, result >>
    /\ UNCHANGED << wvars, lvars >>

\* The session state of the specification, read off the code's state.
SessionState ==
    IF closes > 0 \/ pc[Main] = "failed" THEN "Closed"
    ELSE IF mcp_process = "None" THEN "Uninitialized"
    ELSE IF pc[Main] = "ready" THEN "Ready"
    ELSE "Handshaking"

(***************************************************************************)
(* chat, search_database, normal_chat.                                     *)
(***************************************************************************)

\* When a chat can begin: the web app serves requests once start_mcp_server
\* has returned, or without it ever having run (app imported, not run as
\* __main__), its coroutines interleaving on the one loop; the terminal's
\* main() runs one chat at a time between start_mcp_server and close.
\* Callers are interchangeable: they begin in the order of their numbers.
CanBegin(c) ==
    /\ pc[c] = "idle" /\ running = NoTask
    /\ \A d \in Callers : d < c => pc[d] # "idle"
    /\ IF client = "web"
       THEN pc[Main] \in {"idle", "ready"}
       ELSE /\ pc[Main] = "ready" /\ closes = 0
            /\ \A d \in Callers : Quiet(d)

\* normal_chat: the model's answer, or the "Sorry, ..." string when it raises.
normal_chat(llmOk) == IF llmOk THEN "normal" ELSE "sorry"

\* A variant of ChatUsesDatabase that searches whatever the scorer said; C7
\* fails with it.
ChatAlwaysUsesDatabase(b) == TRUE

\* chat's branch: `if self.should_use_database(user_query):`
ChatUsesDatabase(b) == b

\* chat up to its first suspension: the scorer, then either normal_chat, or
\* search_database up to its receive (send_mcp_message does not suspend).
ChatBegin(c) ==
    /\ CanBegin(c)
    /\ \E q \in Queries, b \in BOOLEAN, llmOk \in BOOLEAN :
          /\ b \in ScorerAnswers[client, q]
          /\ useDb' = [useDb EXCEPT ![c] = b]
          /\ IF ~ChatUsesDatabase(b)
             THEN /\ result' = [result EXCEPT ![c] = normal_chat(llmOk)]
                  /\ pc' = [pc EXCEPT ![c] = "done"]
                  /\ running' = NoTask
                  /\ UNCHANGED << stdin, sent, exc >>
             ELSE /\ llmOk
                  /\ send_mcp_message(call_message(c, q))
                  /\ exc' = [exc EXCEPT ![c] = SendRaises]
                  /\ pc' = [pc EXCEPT ![c] =
                               IF SendRaises = "none" THEN "recv" ELSE "except"]
                  /\ running' = c
                  /\ UNCHANGED result
    /\ UNCHANGED << client, mcp_process, worker, stdout, noise, waiter, received,
                    lastLine, closes, closeExc >>
    /\ UNCHANGED << wvars, lvars >>

\* chat, after search_database returned its string (the text of
\* result.content, or "Database search failed: ..." for any other message):
\* model.generate_content(format_prompt), which may raise.
Format(c) ==
    /\ c \in Callers
    /\ pc[c] = "format" /\ running = c
    /\ \E fmtOk \in BOOLEAN :
          IF fmtOk
          THEN /\ result' = [result EXCEPT ![c] = "formatted"]
               /\ pc' = [pc EXCEPT ![c] = "done"]
               /\ running' = NoTask
               /\ UNCHANGED exc
          ELSE /\ exc' = [exc EXCEPT ![c] = "GenerationError"]
               /\ pc' = [pc EXCEPT ![c] = "except"]
               /\ UNCHANGED << result, running >>
    /\ received' = [received EXCEPT ![c] = NoMsg]
    /\ lastLine' = [lastLine EXCEPT ![c] = "none"]
    /\ UNCHANGED << client, mcp_process, worker, stdin, sent, stdout, noise,
                    waiter, useDb, closes, closeExc >>
    /\ UNCHANGED << wvars, lvars >>

\* The classes `except Exception` catches.
ExceptionSubclasses ==
    { "AttributeError", "ConnectionResetError", "JSONDecodeError", "RuntimeError",
      "GenerationError" }

\* A variant of ChatCatches for connection errors only; C8 fails with it.
ChatCatchesConnectionOnly(e) == e \in { "ConnectionResetError" }

\* chat's handler: `except Exception as e:`
ChatCatches(e) == e \in ExceptionSubclasses

\* chat's except clause: return await self.normal_chat(user_query); an
\* exception it does not catch leaves chat.
Except(c) ==
    /\ c \in Callers
    /\ pc[c] = "except" /\ running = c
    /\ IF ChatCatches(exc[c])
       THEN \E llmOk \in BOOLEAN :
               /\ result' = [result EXCEPT ![c] = normal_chat(llmOk)]
               /\ pc' = [pc EXCEPT ![c] = "done"]
       ELSE /\ pc' = [pc EXCEPT ![c] = "propagated"]
            /\ UNCHANGED result
    /\ running' = NoTask
    /\ exc' = [exc EXCEPT ![c] = "none"]
    /\ lastLine' = [lastLine EXCEPT ![c] = "none"]
    /\ UNCHANGED << client, mcp_process, worker, stdin, sent, stdout, noise,
                    waiter, useDb, received, closes, closeExc >>
    /\ UNCHANGED << wvars, lvars >>

(***************************************************************************)
(* The worker process, seen from the channel.                              *)
(***************************************************************************)

\* A line written to the worker's stdout wakes the coroutine suspended in
\* readline().
Emit(line) ==
    /\ stdout' = Append(stdout, line)
    /\ waiter' = NoTask
    /\ pc' = IF waiter # NoTask THEN [pc EXCEPT ![waiter] = "recv_ready"] ELSE pc

\* A variant of TakeOldest that serves the newest message first; C22 fails
\* with it.
TakeNewest(queue) == Len(queue)

\* The message the worker's loop takes from its input: the oldest one.  The
\* position is counted in the unread messages.
TakeOldest(queue) == 1

\* The unread messages without the k-th.
Without(queue, k) == SubSeq(queue, 1, k - 1) \o SubSeq(queue, k + 1, Len(queue))

\* server.run: the next message is read and, when it is a request, answered
\* with a response that echoes its id (a result or an error).  call_tool has
\* no await: the handling of one message is one step of the worker.
WorkerHandle ==
    /\ worker = "running"
    /\ stdin # << >>
    /\ stdin' = Without(stdin, TakeOldest(stdin))
    /\ IF stdin[TakeOldest(stdin)].id # NoId
       THEN \E ok \in BOOLEAN :
               Emit(ResponseLine(Len(sent) - Len(stdin) + TakeOldest(stdin), ok))
       ELSE UNCHANGED << stdout, waiter, pc >>
    /\ UNCHANGED << client, mcp_process, worker, sent, noise, running, useDb, received, lastLine, exc, result, closes, closeExc >>
    /\ UNCHANGED << wvars, lvars >>

\* The worker writes a line nobody asked for: a print() (plain text, or text
\* that opens with a bracket such as "[DEBUG] ..."), or a notification.
WorkerNoise ==
    /\ worker = "running"
    /\ noise < MaxNoise
    /\ noise' = noise + 1
    /\ \E line \in {TextLine, BracketLine, NotificationLine} : Emit(line)
    /\ UNCHANGED << client, mcp_process, worker, stdin, sent, running, useDb, received, lastLine, exc, result, closes, closeExc >>
    /\ UNCHANGED << wvars, lvars >>

\* The worker process ends on its own: what it had not read is lost, and its
\* stdout reaches end-of-file, which wakes the coroutine suspended in
\* readline().
WorkerExit ==
    /\ worker = "running"
    /\ worker' = "exited"
    /\ stdin' = << >>
    /\ waiter' = NoTask
    /\ pc' = IF waiter # NoTask THEN [pc EXCEPT ![waiter] = "recv_ready"] ELSE pc
    /\ UNCHANGED << client, mcp_process, sent, stdout, noise, running,
                    useDb, received, lastLine, exc, result, closes,
                    closeExc >>
    /\ UNCHANGED << wvars, lvars >>

\* The event loop collects the exited process and closes its pipes.
Reap ==
    /\ worker = "exited"
    /\ worker' = "reaped"
    /\ UNCHANGED << client, mcp_process, stdin, sent, stdout, noise, waiter,
                    running, pc, useDb, received, lastLine, exc, result,
                    closes, closeExc >>
    /\ UNCHANGED << wvars, lvars >>

(***************************************************************************)
(* The worker's tool call: call_tool, execute_sql_query, the formatting.   *)
(***************************************************************************)

\* The tool names a call can carry.
ToolNames == { "search_music_database", "other_tool" }

\* The query texts the tool calls of the model carry.
QRockWord == <<"r","o","c","k">>

QShort == <<"a">>

ToolQueries == { NoQuery, QRock, QRockWord, QShort }

\* arguments.get("query", "")
GetQuery(args) == IF args.has THEN args.query ELSE << >>

\* A variant of QueryMissing that lets every call through; C17 fails with it.
QueryPresentAlways(args) == FALSE

\* `if not user_query:`
QueryMissing(args) == GetQuery(args) = << >>

PleaseProvide == [kind |-> "please", n |-> 0, query |-> << >>, lines |-> << >>, message |-> "none"]

UnknownTool == [kind |-> "unknown_tool", n |-> 0, query |-> << >>, lines |-> << >>, message |-> "none"]

\* call_tool up to generate_sql_from_keywords: another tool's name and a
\* missing or empty query are answered at once.
CallTool ==
    /\ wpc = "idle" /\ calls < MaxCalls
    /\ \E name \in ToolNames, has \in BOOLEAN, q \in ToolQueries :
          LET args == [name |-> name, has |-> has, query |-> IF has THEN q ELSE << >>] IN
          /\ arguments' = args
          /\ IF name # "search_music_database"
             THEN /\ response' = UnknownTool
                  /\ wpc' = "idle"
                  /\ calls' = calls + 1
             ELSE IF QueryMissing(args)
             THEN /\ response' = PleaseProvide
                  /\ wpc' = "idle"
                  /\ calls' = calls + 1
             ELSE /\ response' = NoResponse
                  /\ wpc' = "generate"
                  /\ calls' = calls
    /\ sql_query' = NoSql
    /\ results' = NoResults
    /\ UNCHANGED connections
    /\ UNCHANGED << svars, lvars >>

\* sql_query = generate_sql_from_keywords(user_query)
Generate ==
    /\ wpc = "generate"
    /\ sql_query' = generate_sql_from_keywords(GetQuery(arguments))
    /\ wpc' = "execute"
    /\ UNCHANGED << arguments, results, response, connections, calls >>
    /\ UNCHANGED << svars, lvars >>

\* The rows cursor.fetchall() returned, as dicts: the i-th row of the store,
\* which has no "error" column.
Rows(n) == [i \in 1..n |-> [id |-> i, error |-> "none"]]

\* The exceptions the store raises; str(e) is modelled by the class name.
StoreErrors == { "OperationalError", "DatabaseError" }

\* [{"error": str(e)}]
ErrorResults(e) == [kind |-> "error", rows |-> << [id |-> 0, error |-> e] >>]

\* A variant of ExecuteCatches that lets store errors through; C15 fails
\* with it.
ExecuteCatchesNothing(e) == FALSE

\* execute_sql_query's handler: `except Exception as e:`
ExecuteCatches(e) == e \in StoreErrors

\* The connections a call that failed leaves open: none when connect itself
\* failed; when execute or fetchall failed conn.close() is skipped, and the
\* connection stays open until the interpreter collects the object.
LeftOpen(failedAt) == IF failedAt = "connect" THEN {0} ELSE {0, 1}

\* execute_sql_query(sql_query): connect, execute, fetchall, close; the store
\* decides whether it fails and how many rows it has.
Execute ==
    /\ wpc = "execute"
    /\ \/ \E n \in 0..MaxRows :
             /\ results' = [kind |-> "rows", rows |-> Rows(n)]
             /\ wpc' = "format"
             /\ UNCHANGED connections
       \/ \E failedAt \in {"connect", "execute"}, e \in StoreErrors, left \in BOOLEAN :
             /\ (IF left THEN 1 ELSE 0) \in LeftOpen(failedAt)
             /\ connections' = connections + (IF left THEN 1 ELSE 0)
             /\ IF ExecuteCatches(e)
                THEN /\ results' = ErrorResults(e)
                     /\ wpc' = "format"
                ELSE /\ results' = NoResults
                     /\ wpc' = "raised"
    /\ UNCHANGED << arguments, sql_query, response, calls >>
    /\ UNCHANGED << svars, lvars >>

\* results[:10]
MaxShown == 10

Shown(rows) == SubSeq(rows, 1, IF Len(rows) < MaxShown THEN Len(rows) ELSE MaxShown)

\* A variant of Enumerate that lists one row less; C16 fails with it.
EnumerateShort(rows) == [i \in 1..(Len(Shown(rows)) - 1) |-> << i, rows[i] >>]

\* for i, result in enumerate(results[:10], 1): the lines "<i>. <row>"
Enumerate(rows) == [i \in 1..Len(Shown(rows)) |-> << i, Shown(rows)[i] >>]

\* call_tool's formatting of results: `if not results`, `elif "error" in
\* results[0]` ("Error: " and the message), else the header and the listing.
FormatResults(res, user_query) ==
    IF res.rows = << >>
    THEN [kind |-> "no_results", n |-> 0, query |-> << >>, lines |-> << >>, message |-> "none"]
    ELSE IF res.rows[1].error # "none"
    THEN [kind |-> "error", n |-> 0, query |-> << >>, lines |-> << >>,
          message |-> res.rows[1].error]
    ELSE [kind |-> "found", n |-> Len(res.rows), query |-> user_query,
          lines |-> Enumerate(res.rows), message |-> "none"]

\* call_tool returns [TextContent(type="text", text=response)].
Respond ==
    /\ wpc = "format"
    /\ response' = FormatResults(results, GetQuery(arguments))
    /\ wpc' = "idle"
    /\ calls' = calls + 1
    /\ UNCHANGED << arguments, sql_query, results, connections >>
    /\ UNCHANGED << svars, lvars >>

(***************************************************************************)
(* run_async: the threads that hand coroutines to the event loop.          *)
(***************************************************************************)

\* Who calls run_async: __main__ calls it for start_mcp_server before
\* app.run serves any request; the request threads call it for chat, after
\* that call has returned or without it (the module imported by a server).
CanRunAsync(t) ==
    IF t = Main
    THEN \A c \in Callers : rpc[c] = "idle"
    ELSE rpc[Main] \in {"idle", "done"}

\* `if llm.loop is None:`
LoopMissing == llm_loop = NoLoop

\* run_async, the test of llm.loop.
RunAsyncTest(t) ==
    /\ rpc[t] = "idle" /\ CanRunAsync(t)
    /\ rpc' = [rpc EXCEPT ![t] = IF LoopMissing THEN "new_loop" ELSE "submit"]
    /\ UNCHANGED << llm_loop, loops, loop_threads, submitted, runs >>
    /\ UNCHANGED << svars, wvars >>

\* llm.loop = asyncio.new_event_loop()
RunAsyncNewLoop(t) ==
    /\ rpc[t] = "new_loop"
    /\ loops' = loops + 1
    /\ llm_loop' = loops + 1
    /\ rpc' = [rpc EXCEPT ![t] = "start_thread"]
    /\ UNCHANGED << loop_threads, submitted, runs >>
    /\ UNCHANGED << svars, wvars >>

\* threading.Thread(target=llm.loop.run_forever, daemon=True).start(): the
\* target is the run_forever of the loop llm.loop refers to now.
RunAsyncStartThread(t) ==
    /\ rpc[t] = "start_thread"
    /\ loop_threads' = Append(loop_threads, llm_loop)
    /\ rpc' = [rpc EXCEPT ![t] = "submit"]
    /\ UNCHANGED << llm_loop, loops, submitted, runs >>
    /\ UNCHANGED << svars, wvars >>

\* future = asyncio.run_coroutine_threadsafe(coro, llm.loop)
RunAsyncSubmit(t) ==
    /\ rpc[t] = "submit"
    /\ submitted' = [submitted EXCEPT ![t] = llm_loop]
    /\ rpc' = [rpc EXCEPT ![t] = "done"]
    /\ UNCHANGED << llm_loop, loops, loop_threads, runs >>
    /\ UNCHANGED << svars, wvars >>

\* return future.result(): the thread is free for its next request.  __main__
\* calls run_async once.
RunAsyncReturn(t) ==
    /\ t \in Callers
    /\ rpc[t] = "done" /\ runs[t] + 1 < MaxRuns
    /\ runs' = [runs EXCEPT ![t] = runs[t] + 1]
    /\ rpc' = [rpc EXCEPT ![t] = "idle"]
    /\ UNCHANGED << llm_loop, loops, loop_threads, submitted >>
    /\ UNCHANGED << svars, wvars >>

(***************************************************************************)
(* The specification.                                                      *)
(***************************************************************************)
Next ==
    \/ StartServer
    \/ Close
    \/ \E t \in Tasks : ReadLine(t)
    \/ \E t \in Tasks : ReadEof(t)
    \/ \E t \in Tasks : ReadBlock(t)
    \/ \E c \in Callers : ReadConflict(c)
    \/ \E t \in Tasks : Resume(t)
    \/ \E c \in Callers : ChatBegin(c)
    \/ \E c \in Callers : Format(c)
    \/ \E c \in Callers : Except(c)
    \/ WorkerHandle
    \/ WorkerNoise
    \/ WorkerExit
    \/ Reap

Spec == Init /\ [][Next]_vars

\* The worker answering tool calls, one at a time.
WorkerNext ==
    \/ CallTool
    \/ Generate
    \/ Execute
    \/ Respond

WorkerSpec == Init /\ [][WorkerNext]_vars

\* generate_sql_from_keywords applied to every text of Texts.
CompilerInit ==
    /\ SessionInit /\ client = "web"
    /\ wpc = "generate"
    /\ arguments \in { [name |-> "search_music_database", has |-> TRUE, query |-> t] :
                          t \in Texts }
    /\ sql_query = NoSql
    /\ results = NoResults
    /\ response = NoResponse
    /\ connections = 0
    /\ calls = 0
    /\ LoopInit

CompilerNext == Generate

CompilerSpec == CompilerInit /\ [][CompilerNext]_vars

\* The threads of the web app calling run_async.
LoopNext ==
    \/ \E t \in Tasks : RunAsyncTest(t)
    \/ \E t \in Tasks : RunAsyncNewLoop(t)
    \/ \E t \in Tasks : RunAsyncStartThread(t)
    \/ \E t \in Tasks : RunAsyncSubmit(t)
    \/ \E t \in Tasks : RunAsyncReturn(t)

\* run_async is app.py's.
LoopSpecInit == Init /\ client = "web"

LoopSpec == LoopSpecInit /\ [][LoopNext]_vars

(***************************************************************************)
(* Properties.                                                             *)
(***************************************************************************)

Receiving == {"recv", "recv_wait", "recv_ready"}

\* The callers whose tools/call request is written and who have not yet got
\* a message back.
InFlight == { c \in Callers : pc[c] \in Receiving }

\* start_mcp_server returned after a successful response to initialize.
HandshakeOk ==
    /\ pc[Main] = "ready"
    /\ received[Main].kind = "response"
    /\ received[Main].ok
    /\ received[Main].id = init_message.id

\* C1: (in a session whose handshake succeeded) at most one tools/call
\* request is in flight on the worker channel: no request is written while an
\* earlier caller still waits for its response.
C1_AtMostOneInFlight == HandshakeOk => Cardinality(InFlight) <= 1

\* The id of the request caller c wrote.
SentId(c) == sent[CHOOSE i \in DOMAIN sent : sent[i].by = c].id

\* C2: (in a session whose handshake succeeded) what a call gets back from
\* receive is a response whose id is the id of the request it sent; never a
\* message with another id or with no id.
C2_ReturnsOwnResponse ==
    \A c \in Callers :
        (HandshakeOk /\ received[c] # NoMsg) =>
            /\ received[c].kind = "response"
            /\ received[c].id = SentId(c)

\* The failure the code reports for a call without a session.
SessionNotReady == "AttributeError"

\* The strings normal_chat returns.
NormalStrings == { normal_chat(TRUE), normal_chat(FALSE) }

\* C3: a search_database call made while self.mcp_process is None fails with
\* the not-ready error, raised to its caller chat, and nothing is written to
\* or read from the channel.
C3_UninitializedCallFails ==
    \A c \in Callers :
        (mcp_process = "None" /\ useDb[c] /\ pc[c] # "idle") =>
            /\ \/ pc[c] = "except" /\ exc[c] = SessionNotReady
               \/ pc[c] = "done" /\ result[c] \in NormalStrings
            /\ stdin = << >> /\ sent = << >> /\ stdout = << >>
            /\ received[c] = NoMsg /\ lastLine[c] = "none"

C3_Witness ==
    \E c \in Callers :
        /\ SessionState = "Uninitialized"
        /\ useDb[c] /\ pc[c] = "except"
        /\ exc[c] = SessionNotReady

\* C4: the initialized notification is sent and the session is ready only
\* after a successful response with the initialize request's id (1) was
\* received.
C4_ReadyOnlyAfterInitSuccess ==
    (pc[Main] = "ready"
        \/ \E i \in DOMAIN sent : sent[i].method = "notifications/initialized") =>
        /\ received[Main].kind = "response"
        /\ received[Main].ok
        /\ received[Main].id = init_message.id

\* C5: once readline() has returned end-of-file, receive has ended with a
\* failure: the task is no longer receiving.
C5_EofFailsReceive ==
    \A t \in Tasks :
        lastLine[t] = "eof" => pc[t] \notin Receiving /\ exc[t] # "none"

\* C6: a plain diagnostic line is skipped: after readline() returned one, the
\* task is still receiving, nothing was returned for it and nothing raised.
C6_DiagnosticSkipped ==
    \A t \in Tasks :
        lastLine[t] = "text" => pc[t] \in Receiving /\ exc[t] = "none"

\* C7: a caller whose should_use_database answer was false has written no
\* message to the worker and read nothing from it; only callers whose answer
\* was true reach search_database.
C7_DatabaseOnlyWhenRelevant ==
    \A c \in Callers :
        /\ ~useDb[c] =>
              /\ \A i \in DOMAIN sent : sent[i].by # c
              /\ received[c] = NoMsg /\ lastLine[c] = "none"
              /\ exc[c] = "none"
              /\ pc[c] \in {"idle", "done"}
        /\ (pc[c] \in Receiving \/ \E i \in DOMAIN sent : sent[i].by = c) => useDb[c]

C7_Witness ==
    \E c \in Callers, d \in Callers :
        /\ SessionState = "Ready"
        /\ pc[c] = "done" /\ ~useDb[c] /\ result[c] = "normal"
        /\ \E i \in DOMAIN sent : sent[i].by = d

\* The strings chat can return.
ChatStrings == { "formatted" } \cup NormalStrings

\* C8: no exception leaves chat: a chat that has ended has returned a string,
\* and a chat whose try block raised (in search_database or in the formatting)
\* ends by returning normal_chat's string.
C8_FailuresFallBack ==
    /\ [](\A c \in Callers :
            /\ pc[c] # "propagated"
            /\ pc[c] = "done" => result[c] \in ChatStrings)
    /\ [][\A c \in Callers :
            (pc[c] = "except" /\ pc'[c] # "except") =>
                (pc'[c] = "done" /\ result'[c] \in NormalStrings)]_vars

C8_Witness ==
    \E c \in Callers, d \in Callers :
        /\ pc[c] = "done" /\ useDb[c] /\ result[c] = normal_chat(TRUE)
        /\ \E i \in DOMAIN sent : sent[i].by = c
        /\ pc[d] = "done" /\ result[d] = "formatted"

\* C9: close() never fails, however often it is called, on a session that
\* was never opened or that is Ready or already Closed.
C9_CloseNeverFails ==
    (pc[Main] = "idle" \/ HandshakeOk) => closeExc = "none"

\* C10: (in a session whose handshake succeeded) no two requests written carry
\* the same id.
C10_RequestIdsFresh ==
    \A i \in DOMAIN sent, j \in DOMAIN sent :
        (HandshakeOk /\ i # j /\ sent[i].id # NoId /\ sent[j].id # NoId) =>
            sent[i].id # sent[j].id

(***************************************************************************)
(* Properties of the query compiler (CompilerSpec).                        *)
(***************************************************************************)

\* The template of a statement: its first literal part.
Shape(sql) == sql[1]

\* The value spliced into a statement with one interpolation.
Bound(sql) == SubSeq(sql, 2, Len(sql) - 1)

\* generate_sql_from_keywords has returned for the text in arguments.
Compiled == wpc = "execute" /\ sql_query # NoSql

\* The rule (1..8) the specification selects for a text: the first rule, in
\* priority order, whose trigger keywords the cleaned text contains.
C11_Rule(text) ==
    LET q == CleanQuery(text) IN
    IF AnyKeyword(q, artist_keywords) /\ AnyKey(q, genre_keywords_extended) THEN 1
    ELSE IF AnyKeyword(q, artist_keywords) THEN 2
    ELSE IF AnyKeyword(q, album_keywords) THEN 3
    ELSE IF AnyKeyword(q, track_keywords) THEN 4
    ELSE IF AnyKeyword(q, style_keywords) THEN 5
    ELSE IF AnyKey(q, country_keywords) THEN 6
    ELSE IF \E i \in DOMAIN Split(q) : Len(Split(q)[i]) > 2 THEN 7
    ELSE 8

\* The template shapes of the rules (rule 4 has two).
C11_Shapes ==
    << { Shape(ArtistsByGenreSql(<< >>)) },
       { Shape(ArtistByNameSql(<< >>)) },
       { Shape(AlbumSql(<< >>)) },
       { Shape(LongTracksSql), Shape(TrackSql(<< >>)) },
       { Shape(GenreListSql) },
       { Shape(CountrySql(<< >>)) },
       { Shape(DefaultSql(<< >>)) },
       { Shape(FallbackSql) } >>

\* C11: every text compiles to the template shape of the first rule, in the
\* order 1..8, whose trigger keywords it contains.
C11_FirstMatchingRuleWins ==
    Compiled => Shape(sql_query) \in C11_Shapes[C11_Rule(GetQuery(arguments))]

\* The text has no whitespace-separated token longer than 2 (after the
\* preprocessing: lowercase, quotes stripped).
C12_NoLongToken(text) ==
    \A i \in DOMAIN Split(CleanQuery(text)) : Len(Split(CleanQuery(text))[i]) <= 2

C13_FirstDeclared(mapping, q) ==
    LET hits == { i \in DOMAIN mapping : Contains(q, mapping[i][1]) }
    IN  mapping[CHOOSE i \in hits : \A j \in hits : i <= j][2]

\* The words of a text in the opposite order.
C13_Reversed(text) ==
    LET ws == Split(text) IN Join([i \in 1..Len(ws) |-> ws[Len(ws) + 1 - i]])

\* C13: under the artist-by-genre rule and under the country rule the value
\* bound is that of the first key, in declaration order, that the text
\* contains, and the same text with its words in the opposite order compiles
\* to the same statement; "rock artists" binds Rock in the
\* artists-albums-tracks-genres statement.
C13_DeclarationOrderWins ==
    Compiled =>
        LET text == GetQuery(arguments)
            q == CleanQuery(text)
        IN  /\ Shape(sql_query) = Shape(ArtistsByGenreSql(<< >>)) =>
                  /\ Bound(sql_query) = C13_FirstDeclared(genre_keywords_extended, q)
                  /\ generate_sql_from_keywords(C13_Reversed(text)) = sql_query
            /\ Shape(sql_query) = Shape(CountrySql(<< >>)) =>
                  /\ Bound(sql_query) = C13_FirstDeclared(country_keywords, q)
                  /\ generate_sql_from_keywords(C13_Reversed(text)) = sql_query
            /\ text = <<"r","o","c","k"," ","a","r","t","i","s","t","s">> =>
                  sql_query = ArtistsByGenreSql(<<"R","o","c","k">>)

C13_Witness ==
    /\ Compiled
    /\ GetQuery(arguments) =
          <<"p","o","p"," ","r","o","c","k"," ","a","r","t","i","s","t","s">>
    /\ Bound(sql_query) = <<"R","o","c","k">>

\* The text has a trigger of one of the rules 1 to 5.
C14_HigherRule(q) ==
    \/ AnyKeyword(q, artist_keywords)
    \/ AnyKeyword(q, album_keywords)
    \/ AnyKeyword(q, track_keywords)
    \/ AnyKeyword(q, style_keywords)

\* C14: a text that contains one of the twelve nationality adjectives (and
\* no other of them) and no trigger of the rules 1 to 5 compiles to the
\* customer-count statement bound to that adjective's country.
C14_EveryAdjectiveCompiles ==
    Compiled =>
        LET q == CleanQuery(GetQuery(arguments)) IN
        \A i \in DOMAIN country_keywords :
            ( /\ Contains(q, country_keywords[i][1])
              /\ \A j \in DOMAIN country_keywords :
                    j # i => ~Contains(q, country_keywords[j][1])
              /\ ~C14_HigherRule(q) )
            => sql_query = CountrySql(country_keywords[i][2])

\* One text for each rule that extracts a search term.
C18_References ==
    { <<"Q","u","e","e","n">>,
      <<"Q","u","e","e","n"," ","a","r","t","i","s","t","s">>,
      <<"Q","u","e","e","n"," ","a","l","b","u","m">>,
      <<"Q","u","e","e","n"," ","s","o","n","g">> }

\* C18: two texts that select the same rule compile to the identical
\* statement text: whatever the text, its statement is the one of the
\* reference text of the same shape.
C18_StatementIndependentOfTerm ==
    Compiled =>
        \A t \in C18_References :
            Shape(generate_sql_from_keywords(t)) = Shape(sql_query) =>
                generate_sql_from_keywords(t) = sql_query

\* The stop-list of the artist-by-name rule in the specification: the
\* connectives and the ten role words themselves.
C21_StopList ==
    << <<"t","h","e">>, <<"a","n","d">>, <<"w","h","o">>, <<"s","i","n","g">>,
       <<"b","y">>, <<"f","r","o","m">>, <<"w","i","t","h">> >> \o artist_keywords

\* The tokens of a text, longer than 2 and not in the stop-list, in order.
C21_Candidates(text) ==
    SelectSeq(Split(CleanQuery(text)),
              LAMBDA w : Len(w) > 2 /\ ~(\E i \in DOMAIN C21_StopList : C21_StopList[i] = w))

\* C21: in the artist-by-name rule the search term is the first token longer
\* than 2 that is not in the stop-list, and it is never one of the ten
\* artist-role keywords.
C21_TermNeverRoleWord ==
    (Compiled /\ Shape(sql_query) = Shape(ArtistByNameSql(<< >>))) =>
        /\ C21_Candidates(GetQuery(arguments)) # << >>
        /\ Bound(sql_query) = C21_Candidates(GetQuery(arguments))[1]
        /\ \A i \in DOMAIN artist_keywords : Bound(sql_query) # artist_keywords[i]

(***************************************************************************)
(* Properties of the tool call (WorkerSpec).                               *)
(***************************************************************************)

\* C15: a store failure never leaves execute_sql_query: its outcome is the
\* one-element [{"error": message}], call_tool answers it with the text
\* "Error: <message>", and the worker is back at its loop.
C15_StoreFailureContained ==
    /\ wpc # "raised"
    /\ results.kind = "error" =>
          /\ Len(results.rows) = 1 /\ results.rows[1].error \in StoreErrors
          /\ wpc \in {"format", "idle"}
          /\ wpc = "idle" =>
                /\ response.kind = "error"
                /\ response.message = results.rows[1].error

C15_Witness ==
    /\ wpc = "idle" /\ calls < MaxCalls
    /\ results.kind = "error"
    /\ response.kind = "error"

\* min(n, 10)
C16_Min(n) == IF n < 10 THEN n ELSE 10

\* C16: for n >= 1 rows the answer has the header "Found <n> results for
\* '<the original query text>':" with n the true row count, then min(n, 10)
\* lines numbered from 1 in row order; for no rows it is exactly "No results
\* found for your query.".
C16_HeaderCountsAllRows ==
    (wpc = "idle" /\ results.kind = "rows") =>
        IF Len(results.rows) = 0
        THEN response = [kind |-> "no_results", n |-> 0, query |-> << >>,
                         lines |-> << >>, message |-> "none"]
        ELSE /\ response.kind = "found"
             /\ response.n = Len(results.rows)
             /\ response.query = arguments.query
             /\ Len(response.lines) = C16_Min(Len(results.rows))
             /\ \A i \in DOMAIN response.lines :
                   response.lines[i] = << i, results.rows[i] >>

C16_Witness ==
    /\ wpc = "idle" /\ results.kind = "rows"
    /\ Len(results.rows) = 15
    /\ response.kind = "found" /\ response.n = Len(results.rows)
    /\ Len(response.lines) = 10
    /\ arguments.query = QRockWord

\* C17: a search_music_database call without a query, or with an empty one,
\* is answered with the "Please provide a search query" text as a normal
\* result; the compiler and the executor have not run for it.
C17_MissingQueryAnswered ==
    ( /\ arguments.name = "search_music_database"
      /\ (~arguments.has \/ arguments.query = << >>) ) =>
        /\ wpc = "idle"
        /\ response = PleaseProvide
        /\ sql_query = NoSql
        /\ results = NoResults

C17_Witness ==
    /\ arguments.name = "search_music_database"
    /\ ~arguments.has
    /\ response = PleaseProvide
    /\ calls = 2

\* C19: execute_sql_query has closed the connection it opened when it
\* returns: no store connection is open between the worker's steps.
C19_ConnectionsClosed == connections = 0

(***************************************************************************)
(* Properties of the channel between calls (Spec).                         *)
(***************************************************************************)

\* C20: (in a session whose handshake succeeded) when no call is in flight
\* no response is left unread on the worker's stdout, and a response a call
\* takes answers the request that call wrote.
C20_StreamSynchronized ==
    HandshakeOk =>
        /\ (running = NoTask /\ \A c \in Callers : pc[c] \in {"idle", "done"}) =>
              \A i \in DOMAIN stdout : stdout[i].kind # "response"
        /\ \A c \in Callers :
              received[c].kind = "response" => sent[received[c].re].by = c

\* How many of the messages written the worker's input no longer holds: the
\* ones it has taken (and, once it is gone, the ones lost with it).
Taken == Len(sent) - Len(stdin)

C23_SingleLoop ==
    /\ loops <= 1
    /\ Len(loop_threads) <= 1
    /\ \A t \in Tasks, u \in Tasks :
          (submitted[t] # NoLoop /\ submitted[u] # NoLoop) => submitted[t] = submitted[u]

=============================================================================
